---- MODULE Spec2Model ----
(***************************************************************************)
(* FlightBot: the tracking registry (FlightMonitor), the poll cycle, the   *)
(* quota tracker (ApiUsageTracker), the flight data client                 *)
(* (FlightService.getFlightData) and the /flightbot command handler.       *)
(*                                                                         *)
(* JavaScript runs one synchronous section at a time; control is given up  *)
(* only at an await on I/O.  Every action below is one synchronous         *)
(* section: a handler up to its first pending await, or the continuation   *)
(* that runs when a pending provider request or channel post settles.      *)
(*                                                                         *)
(* Strings are sequences of one-character strings, so that concatenation,  *)
(* stripping and pattern matching are computed and not assumed.            *)
(* Dates are clock ticks; getTime() of a tick t is t * TickMs.             *)
(***************************************************************************)
EXTENDS Integers, Sequences, FiniteSets, TLC

\* ---------------------------------------------------------------- bounds
\* Last clock tick of a behaviour.
MaxTime == 3
\* Commands, stopTracking calls and poll cycles started in a behaviour.
MaxTriggers == 1
\* recordRequest calls made directly on the tracker in a behaviour.
MaxRecords == 3
\* API_MONTHLY_LIMIT of the modelled deployment (the default is 1000).
MonthlyLimit == 20

\* ---------------------------------------------------------------- time
FiveMinutesMs == 5 * 60 * 1000
\* One clock tick is half the poll interval.
TickMs == FiveMinutesMs \div 2
getTime(t) == t * TickMs
\* getMonth() and getFullYear() of a tick: the ticks up to MaxTime fall in one
\* calendar month, the tick after them in the next month, and the tick after
\* that in the first month again, a year on.
WallDate(t) ==
    IF t <= MaxTime THEN [month |-> 10, year |-> 2026]
    ELSE IF t = MaxTime + 1 THEN [month |-> 11, year |-> 2026]
    ELSE [month |-> 10, year |-> 2027]

\* ---------------------------------------------------------------- strings
Range(s) == {s[i] : i \in 1..Len(s)}
Letters ==
    {"A", "B", "C", "D", "E", "F", "G", "H", "I", "J", "K", "L", "M",
     "N", "O", "P", "Q", "R", "S", "T", "U", "V", "W", "X", "Y", "Z",
     "a", "b", "c", "d", "e", "f", "g", "h", "i", "j", "k", "l", "m",
     "n", "o", "p", "q", "r", "s", "t", "u", "v", "w", "x", "y", "z"}
Digits == {"0", "1", "2", "3", "4", "5", "6", "7", "8", "9"}
AllIn(s, from, to, class) == \A i \in from..to : s[i] \in class

\* ---------------------------------------------------------------- quota tracker
WarningPercent == 80
CriticalPercent == 95

LogCap == 100

\* An entry of usage.requests is modelled by the ordinal of its call in the
\* month: it stands for the entry's timestamp, type and flight id.
resetUsage(t) ==
    [month |-> WallDate(t).month, year |-> WallDate(t).year, count |-> 0, requests |-> <<>>]

isNewMonth(u, t) == u.month # WallDate(t).month \/ u.year # WallDate(t).year

RolledCountOnly(u, t) == IF isNewMonth(u, t) THEN [u EXCEPT !.count = 0] ELSE u
\* The month check every accessor starts with: the state the accessor then reads.
Rolled(u, t) == IF isNewMonth(u, t) THEN resetUsage(t) ELSE u

canMakeRequestUnrolled(u, t) == u.count < MonthlyLimit
canMakeRequestAtLimit(u, t) == Rolled(u, t).count <= MonthlyLimit
canMakeRequest(u, t) == Rolled(u, t).count < MonthlyLimit

PercentageAbove(u, t, percent) == 100 * Rolled(u, t).count > percent * MonthlyLimit
\* (count / monthlyLimit) * 100 >= threshold * 100, compared without the division.
PercentageAtLeast(u, t, percent) == 100 * Rolled(u, t).count >= percent * MonthlyLimit

shouldLimitTracking(u, t) == PercentageAtLeast(u, t, CriticalPercent)

FirstEntries(log) == IF Len(log) > LogCap THEN SubSeq(log, 1, LogCap) ELSE log
\* requests.slice(-100)
LastEntries(log) ==
    IF Len(log) > LogCap THEN SubSeq(log, Len(log) - LogCap + 1, Len(log)) ELSE log

recordRequest(u, t) ==
    LET r == Rolled(u, t)
    IN [r EXCEPT !.count = @ + 1, !.requests = LastEntries(Append(@, r.count + 1))]

getRemainingRequests(u, t) ==
    IF MonthlyLimit - Rolled(u, t).count > 0 THEN MonthlyLimit - Rolled(u, t).count ELSE 0

\* ---------------------------------------------------------------- quota file
\* The file is absent, cannot be read, holds text that is no JSON, holds the
\* JSON value null or {}, or holds a usage object.
FileKinds == {"missing", "unreadable", "unparsable", "null", "empty object", "data"}
NoData == [month |-> 0, year |-> 0, count |-> 0, requests |-> <<>>]
File(kind, data) == [kind |-> kind, data |-> data]

\* saveUsage: a failed write is caught and leaves the file as it was.
saveUsage(file, u, ok) == IF ok THEN File("data", u) ELSE file

loadUsageTrusting(file, t) ==
    IF ~isNewMonth(file.data, t) THEN file.data ELSE resetUsage(t)

\* this.usage when the constructor returns.
loadUsage(file, t) ==
    IF file.kind = "data" /\ ~isNewMonth(file.data, t) THEN file.data ELSE resetUsage(t)

\* The file after a section that took the in-memory state from old to new:
\* resetUsage and recordRequest save, nothing else does.
FileAfter(file, old, new, ok) == IF new # old THEN saveUsage(file, new, ok) ELSE file

\* The file when the constructor returns: every path but an unchanged load
\* goes through resetUsage.
FileAfterLoad(file, t, ok) ==
    IF file.kind = "data" /\ ~isNewMonth(file.data, t)
    THEN file
    ELSE saveUsage(file, resetUsage(t), ok)

UsageStatusOf(u, t) ==
    IF PercentageAtLeast(u, t, CriticalPercent) THEN "critical"
    ELSE IF PercentageAtLeast(u, t, WarningPercent) THEN "warning"
    ELSE "healthy"

\* ---------------------------------------------------------------- flight service
\* identifier.replace(/[^A-Z0-9]/gi, '')
IsAlnum(c) == c \in Letters \cup Digits
Clean(identifier) == SelectSeq(identifier, IsAlnum)

\* /^[A-Z]{2,3}[0-9]{1,4}[A-Z]?$/i
isFlightNumber(s) ==
    \E a \in 2..3, d \in 1..4, z \in 0..1 :
        /\ Len(s) = a + d + z
        /\ AllIn(s, 1, a, Letters)
        /\ AllIn(s, a + 1, a + d, Digits)
        /\ AllIn(s, a + d + 1, a + d + z, Letters)

\* /^[A-Z]-?[A-Z0-9]{1,5}$/i  or  /^N[0-9]{1,5}[A-Z]{0,2}$/i
isTailNumber(s) ==
    \/ \E h \in 0..1, n \in 1..5 :
        /\ Len(s) = 1 + h + n
        /\ s[1] \in Letters
        /\ h = 1 => s[2] = "-"
        /\ AllIn(s, 2 + h, 1 + h + n, Letters \cup Digits)
    \/ \E d \in 1..5, z \in 0..2 :
        /\ Len(s) = 1 + d + z
        /\ s[1] \in {"N", "n"}
        /\ AllIn(s, 2, 1 + d, Digits)
        /\ AllIn(s, 2 + d, 1 + d + z, Letters)

PreCheckUngated(identifier, u, t) ==
    IF Len(identifier) < 2 THEN "Flight identifier too short"
    ELSE IF Len(Clean(identifier)) < 2 THEN "Invalid flight identifier format"
    ELSE IF isFlightNumber(Clean(identifier)) THEN "flight_number"
    ELSE IF isTailNumber(Clean(identifier)) THEN "tail_number"
    ELSE "Invalid flight identifier format"
\* What getFlightData decides before it awaits anything.
PreCheck(identifier, u, t) ==
    IF Len(identifier) < 2 THEN "Flight identifier too short"
    ELSE IF ~canMakeRequest(u, t) THEN "API usage limit reached"
    ELSE IF Len(Clean(identifier)) < 2 THEN "Invalid flight identifier format"
    ELSE IF isFlightNumber(Clean(identifier)) THEN "flight_number"
    ELSE IF isTailNumber(Clean(identifier)) THEN "tail_number"
    ELSE "Invalid flight identifier format"

\* The quota state after PreCheck: canMakeRequest ran unless the length test threw.
PreCheckUsage(identifier, u, t) == IF Len(identifier) < 2 THEN u ELSE Rolled(u, t)

Issued(pre) == pre \in {"flight_number", "tail_number"}

Undefined == "undefined"
toLowerCase(status) ==
    CASE status = "Unknown" -> "unknown"
      [] status = "Result Unknown" -> "result unknown"
      [] OTHER -> status

mapFlightAwareStatus(status) ==
    CASE status = "Scheduled" -> "scheduled"
      [] status = "Active" -> "active"
      [] status = "Completed" -> "landed"
      [] status = "Cancelled" -> "cancelled"
      [] status = "Diverted" -> "diverted"
      [] OTHER -> toLowerCase(IF status = Undefined THEN "unknown" ELSE status)

normalizeFlightData(flight, searchType) ==
    [flight_status |-> mapFlightAwareStatus(flight.status), searchType |-> searchType]

updateTriggers == {"scheduled", "active", "landed", "cancelled", "incident", "diverted"}

shouldSendUpdateBetweenTriggers(currentStatus, previousStatus) ==
    /\ currentStatus # previousStatus
    /\ currentStatus \in updateTriggers
    /\ previousStatus \in updateTriggers
shouldSendUpdate(currentStatus, previousStatus) ==
    currentStatus # previousStatus /\ currentStatus \in updateTriggers

\* ---------------------------------------------------------------- registry
\* trackedFlights is a Map: a sequence of [key, ref] in insertion order.  The
\* TrackedFlight objects live in heap; a check holds the ref of the object it
\* was launched for, whatever the Map holds by then.
KeyOf(identifier, channelId) == identifier \o <<"_">> \o channelId

MapKeys(reg) == {reg[i].key : i \in DOMAIN reg}
MapHas(reg, key) == key \in MapKeys(reg)
MapGet(reg, key) == reg[CHOOSE i \in DOMAIN reg : reg[i].key = key].ref
MapSetAppending(reg, key, ref) == Append(reg, [key |-> key, ref |-> ref])
MapSet(reg, key, ref) ==
    IF MapHas(reg, key)
    THEN [i \in DOMAIN reg |-> IF reg[i].key = key THEN [key |-> key, ref |-> ref] ELSE reg[i]]
    ELSE Append(reg, [key |-> key, ref |-> ref])
KeepsEveryKey(e, key) == TRUE
KeepsOtherKeys(e, key) == e.key # key
MapDelete(reg, key) ==
    LET Keep(e) == KeepsOtherKeys(e, key) IN SelectSeq(reg, Keep)

NoObject == [identifier |-> <<>>]
NewTracked(trackingInfo, t) ==
    [flight |-> trackingInfo.flight,
     channelId |-> trackingInfo.channelId,
     userId |-> trackingInfo.userId,
     identifier |-> trackingInfo.identifier,
     lastStatus |-> trackingInfo.flight.flight_status,
     lastUpdated |-> t,
     updateCount |-> 0,
     hasLanded |-> trackingInfo.flight.flight_status = "landed"]

startTracking(reg, trackingInfo, ref) ==
    MapSet(reg, KeyOf(trackingInfo.identifier, trackingInfo.channelId), ref)

stopTracking(reg, identifier, channelId) == MapDelete(reg, KeyOf(identifier, channelId))
isTracking(reg, identifier, channelId) == MapHas(reg, KeyOf(identifier, channelId))
getTrackedFlightsCount(reg) == Len(reg)

\* ---------------------------------------------------------------- poll cycle, pure part
PruneThreshold == 10
CriticalKeep == 2

IsCompletedFromThreshold(tracking) ==
    tracking.hasLanded /\ tracking.updateCount >= PruneThreshold
IsCompleted(tracking) == tracking.hasLanded /\ tracking.updateCount > PruneThreshold
shouldCheckFromFiveMinutes(tracking, currentTime) ==
    getTime(currentTime) - getTime(tracking.lastUpdated) >= FiveMinutesMs
shouldCheck(tracking, currentTime) ==
    getTime(currentTime) - getTime(tracking.lastUpdated) > FiveMinutesMs

PrunedOnLanding(reg, h) ==
    LET Keep(e) == ~h[e.ref].hasLanded IN SelectSeq(reg, Keep)
\* The Map after the selection loop has deleted the completed entries.
Pruned(reg, h) ==
    LET Keep(e) == ~IsCompleted(h[e.ref]) IN SelectSeq(reg, Keep)

\* flightsToCheck after the selection loop, in iteration order.
Candidates(reg, h, currentTime) ==
    LET Stale(e) == ~IsCompleted(h[e.ref]) /\ shouldCheck(h[e.ref], currentTime)
    IN SelectSeq(reg, Stale)

\* Array.prototype.sort with (a, b) => b.lastUpdated - a.lastUpdated: stable, descending.
RECURSIVE SortByLastUpdatedDesc(_, _)
SortByLastUpdatedDesc(list, h) ==
    IF Len(list) <= 1 THEN list
    ELSE LET rest == SortByLastUpdatedDesc(Tail(list), h)
             x == Head(list)
             Before(e) == h[e.ref].lastUpdated > h[x.ref].lastUpdated
             NotBefore(e) == ~Before(e)
         IN SelectSeq(rest, Before) \o <<x>> \o SelectSeq(rest, NotBefore)

flightsToCheckUnsorted(reg, h, u, currentTime) ==
    LET all == Candidates(reg, h, currentTime)
    IN IF shouldLimitTracking(u, currentTime) /\ Len(all) > CriticalKeep
       THEN SubSeq(all, 1, CriticalKeep)
       ELSE all
flightsToCheck(reg, h, u, currentTime) ==
    LET all == Candidates(reg, h, currentTime)
    IN IF shouldLimitTracking(u, currentTime) /\ Len(all) > CriticalKeep
       THEN SubSeq(SortByLastUpdatedDesc(all, h), 1, CriticalKeep)
       ELSE all

\* ---------------------------------------------------------------- provider
ProviderStatuses == {"Active", "Completed", "Unknown"}
ErrorCodes == {400, 401, 429, 500}
ProviderLists == {<<>>} \cup {<<[status |-> st]>> : st \in ProviderStatuses}
Replies ==
    {[ok |-> TRUE, code |-> 200, flights |-> fl] : fl \in ProviderLists}
    \cup {[ok |-> FALSE, code |-> c, flights |-> <<>>] : c \in ErrorCodes}

NoFlight == [flight_status |-> "none", searchType |-> "none"]

SettleTrackingNotFound(searchType, phase, reply) ==
    IF reply.ok
    THEN [kind |-> "flight", msg |-> "",
          flight |-> IF Len(reply.flights) > 0
                     THEN normalizeFlightData(reply.flights[1], searchType)
                     ELSE [flight_status |-> "unknown", searchType |-> searchType]]
    ELSE IF searchType = "tail_number" /\ phase = "primary" /\ reply.code = 400
         THEN [kind |-> "retry", msg |-> "", flight |-> NoFlight]
         ELSE [kind |-> "throw", flight |-> NoFlight,
               msg |-> IF reply.code = 401 THEN "API authentication failed"
                       ELSE IF reply.code = 429 THEN "API rate limit exceeded"
                       ELSE "Request failed"]
SettleRetryingAnyError(searchType, phase, reply) ==
    IF reply.ok
    THEN IF Len(reply.flights) > 0
         THEN [kind |-> "flight", msg |-> "",
               flight |-> normalizeFlightData(reply.flights[1], searchType)]
         ELSE [kind |-> "null", msg |-> "", flight |-> NoFlight]
    ELSE IF searchType = "tail_number" /\ phase = "primary"
         THEN [kind |-> "retry", msg |-> "", flight |-> NoFlight]
         ELSE [kind |-> "throw", flight |-> NoFlight,
               msg |-> IF reply.code = 401 THEN "API authentication failed"
                       ELSE IF reply.code = 429 THEN "API rate limit exceeded"
                       ELSE "Request failed"]
\* How getFlightData ends when the pending request of the given phase settles:
\* a flight, null, a thrown error, or the fallback request of a tail number.
Settle(searchType, phase, reply) ==
    IF reply.ok
    THEN IF Len(reply.flights) > 0
         THEN [kind |-> "flight", msg |-> "",
               flight |-> normalizeFlightData(reply.flights[1], searchType)]
         ELSE [kind |-> "null", msg |-> "", flight |-> NoFlight]
    ELSE IF searchType = "tail_number" /\ phase = "primary" /\ reply.code = 400
         THEN [kind |-> "retry", msg |-> "", flight |-> NoFlight]
         ELSE [kind |-> "throw", flight |-> NoFlight,
               msg |-> IF reply.code = 401 THEN "API authentication failed"
                       ELSE IF reply.code = 429 THEN "API rate limit exceeded"
                       ELSE "Request failed"]

\* recordRequest runs after every request that was answered without an error.
UsageAfterReply(u, t, reply) == IF reply.ok THEN recordRequest(u, t) ELSE u

\* ---------------------------------------------------------------- command handler
HandledMessages ==
    {"Invalid flight identifier format", "Flight identifier too short",
     "API authentication failed", "API rate limit exceeded", "API usage limit reached"}

None == [type |-> "", text |-> ""]
Response(type, text) == [type |-> type, text |-> text]
BoolText(b) == IF b THEN "true" ELSE "false"

HandlerCatchPassingRateLimit(msg) ==
    CASE msg = "Invalid flight identifier format" -> Response("ephemeral", "Invalid format")
      [] msg = "Flight identifier too short" -> Response("ephemeral", "Flight identifier too short")
      [] msg = "API authentication failed" -> Response("ephemeral", "Service temporarily unavailable")
      [] msg = "API usage limit reached" -> Response("ephemeral", "Monthly API limit reached")
      [] OTHER -> Response("ephemeral", "Error retrieving flight information")
\* The catch block of handleFlightbotCommand, and for an error it throws again
\* the catch block of the /flightbot listener.
HandlerCatch(msg) ==
    CASE msg = "Invalid flight identifier format" -> Response("ephemeral", "Invalid format")
      [] msg = "Flight identifier too short" -> Response("ephemeral", "Flight identifier too short")
      [] msg = "API authentication failed" -> Response("ephemeral", "Service temporarily unavailable")
      [] msg = "API rate limit exceeded" -> Response("ephemeral", "Service busy")
      [] msg = "API usage limit reached" -> Response("ephemeral", "Monthly API limit reached")
      [] OTHER -> Response("ephemeral", "Error retrieving flight information")

\* ---------------------------------------------------------------- state
VARIABLES
    now,            \* the wall clock, in ticks
    usage,          \* ApiUsageTracker.usage
    trackedFlights, \* FlightMonitor.trackedFlights
    heap,           \* the TrackedFlight objects, by ref
    tasks,          \* pending awaits: provider requests and channel posts
    running,        \* poll cycles waiting in Promise.allSettled
    result,         \* what the last synchronous section returned, answered or logged
    pairs,          \* the (identifier, channel) pairs commands are issued for
    left,           \* how many commands, stops, poll cycles or tracker calls may still start
    usageFile,      \* data/api_usage.json
    writable        \* whether a write of the file succeeds

vars == <<now, usage, trackedFlights, heap, tasks, running, result, pairs, left,
          usageFile, writable>>

MaxRefs == 5
Refs == 1..MaxRefs
UserIds == {"U1"}


Task(kind, cycle, ref, identifier, channelId, userId, searchType) ==
    [kind |-> kind, cycle |-> cycle, ref |-> ref, identifier |-> identifier,
     channelId |-> channelId, userId |-> userId, searchType |-> searchType,
     phase |-> "primary", flight |-> NoFlight, previousStatus |-> "none"]

Lookups(ts) == {t \in ts : t.kind = "lookup"}
\* Each pending call of the handler is a promise of its own: a lookup carries,
\* in the place of the cycle, the least number no pending lookup carries.
LookupId(ts) ==
    CHOOSE n \in 1..(Cardinality(Lookups(ts)) + 1) :
        /\ \A t \in Lookups(ts) : t.cycle # n
        /\ \A m \in 1..(n - 1) : \E t \in Lookups(ts) : t.cycle = m
Checks(ts) == {t \in ts : t.kind = "check"}
Posting(ts) == {t \in ts : t.phase = "posting"}

MapRefs(reg) == {reg[i].ref : i \in DOMAIN reg}
Live(reg, ts) == MapRefs(reg) \cup {t.ref : t \in Checks(ts)}
\* Objects nothing refers to any more are garbage.
Collect(h, reg, ts) == [r \in Refs |-> IF r \in Live(reg, ts) THEN h[r] ELSE NoObject]
FreeRefsIgnoringChecks(reg, ts) == Refs \ MapRefs(reg)
FreeRefs(reg, ts) == Refs \ Live(reg, ts)
Least(S) == CHOOSE x \in S : \A y \in S : x <= y

\* ---------------------------------------------------------------- checkSingleFlight, pure part
AfterFailedCheckTouching(tracking, t) == [tracking EXCEPT !.lastUpdated = t]
\* The object after a check whose fetch returned null or threw.
AfterFailedCheck(tracking, t) == tracking

AfterQuietCheckKeepingSnapshot(tracking, flight, t) == [tracking EXCEPT !.lastUpdated = t]
AfterQuietCheckRecomputing(tracking, flight, t) ==
    [tracking EXCEPT !.lastUpdated = t, !.flight = flight,
                     !.hasLanded = flight.flight_status = "landed"]
AfterQuietCheckKeepingTime(tracking, flight, t) == [tracking EXCEPT !.flight = flight]
AfterQuietCheckTakingStatus(tracking, flight, t) ==
    [tracking EXCEPT !.lastUpdated = t, !.flight = flight,
                     !.lastStatus = flight.flight_status]
\* The object after a check that found nothing to report.
AfterQuietCheck(tracking, flight, t) ==
    [tracking EXCEPT !.lastUpdated = t, !.flight = flight]

AfterNotifyResettingLanded(tracking, flight, t) ==
    [tracking EXCEPT !.lastStatus = flight.flight_status,
                     !.updateCount = @ + 1,
                     !.hasLanded = flight.flight_status = "landed",
                     !.lastUpdated = t,
                     !.flight = flight]
AfterNotifyLeavingLanded(tracking, flight, t) ==
    [tracking EXCEPT !.lastStatus = flight.flight_status,
                     !.updateCount = @ + 1,
                     !.lastUpdated = t,
                     !.flight = flight]
\* The object after sendFlightUpdate has returned, delivered or not.
AfterNotify(tracking, flight, t) ==
    [tracking EXCEPT !.lastStatus = flight.flight_status,
                     !.updateCount = @ + 1,
                     !.hasLanded = IF flight.flight_status = "landed" THEN TRUE ELSE @,
                     !.lastUpdated = t,
                     !.flight = flight]

AfterPostDeliveredOnly(tracking, flight, t, delivered) ==
    IF delivered THEN AfterNotify(tracking, flight, t) ELSE tracking
\* The object once sendFlightUpdate has returned: it catches a failed post, so
\* the statements after it run whether the message was delivered or not.
AfterPost(tracking, flight, t, delivered) == AfterNotify(tracking, flight, t)


\* ---------------------------------------------------------------- actions
Tick ==
    /\ now < MaxTime
    /\ now' = now + 1
    /\ result' = None
    /\ UNCHANGED <<usage, trackedFlights, heap, tasks, running, pairs, left,
                   usageFile, writable>>

\* handleFlightbotCommand up to its await of the provider.
Command(identifier, channelId, userId) ==
    LET pre == PreCheck(identifier, usage, now)
    IN /\ left > 0
       /\ left' = left - 1
       /\ UNCHANGED <<now, trackedFlights, heap, running, pairs, writable>>
       /\ IF identifier = <<>>
          THEN /\ result' = Response("ephemeral", "Please provide a flight number")
               /\ UNCHANGED <<usage, tasks>>
          ELSE /\ usage' = PreCheckUsage(identifier, usage, now)
               /\ IF Issued(pre)
                  THEN /\ tasks' = tasks \cup
                                     {Task("lookup", LookupId(tasks), 0, identifier, channelId,
                                           userId, pre)}
                       /\ result' = None
                  ELSE /\ result' = HandlerCatch(pre)
                       /\ UNCHANGED tasks
       /\ usageFile' = FileAfter(usageFile, usage, usage', writable)

\* The rest of handleFlightbotCommand, run when the provider answers.
LookupReply(t, reply) ==
    LET res == Settle(t.searchType, t.phase, reply)
        key == KeyOf(t.identifier, t.channelId)
        rest == tasks \ {t}
    IN /\ t \in Lookups(tasks)
       /\ usage' = UsageAfterReply(usage, now, reply)
       /\ usageFile' = FileAfter(usageFile, usage, usage', writable)
       /\ UNCHANGED <<now, running, pairs, left, writable>>
       /\ CASE res.kind = "retry" ->
                 /\ tasks' = rest \cup {[t EXCEPT !.phase = "fallback"]}
                 /\ result' = None
                 /\ UNCHANGED <<trackedFlights, heap>>
            [] res.kind = "flight" ->
                 LET free == FreeRefs(MapDelete(trackedFlights, key), rest)
                     ref == Least(free)
                     info == [flight |-> res.flight, channelId |-> t.channelId,
                              userId |-> t.userId, identifier |-> t.identifier]
                     reg == startTracking(trackedFlights, info, ref)
                 IN /\ free # {}
                    /\ tasks' = rest
                    /\ trackedFlights' = reg
                    /\ heap' = Collect([heap EXCEPT ![ref] = NewTracked(info, now)], reg, rest)
                    /\ result' = Response("in_channel", "Now tracking")
            [] res.kind = "null" ->
                 /\ tasks' = rest
                 /\ result' = Response("ephemeral", "not found")
                 /\ UNCHANGED <<trackedFlights, heap>>
            [] res.kind = "throw" ->
                 /\ tasks' = rest
                 /\ result' = HandlerCatch(res.msg)
                 /\ UNCHANGED <<trackedFlights, heap>>

StopTracking(identifier, channelId) ==
    LET reg == stopTracking(trackedFlights, identifier, channelId)
    IN /\ left > 0
       /\ left' = left - 1
       /\ trackedFlights' = reg
       /\ heap' = Collect(heap, reg, tasks)
       /\ result' = Response("boolean", IF reg # trackedFlights THEN "true" ELSE "false")
       /\ UNCHANGED <<now, usage, tasks, running, pairs, usageFile, writable>>

\* checkSingleFlight up to its await of the provider, for one selected entry.
LaunchCheck(e, h, u, t, cycle) ==
    LET tracking == h[e.ref]
        pre == PreCheck(tracking.identifier, u, t)
    IN IF Issued(pre)
       THEN {Task("check", cycle, e.ref, tracking.identifier, tracking.channelId,
                  tracking.userId, pre)}
       ELSE {}

\* checkFlightUpdates up to its await of Promise.allSettled.
CheckFlightUpdates ==
    /\ left > 0
    /\ left' = left - 1
    /\ usage' = Rolled(usage, now)
    /\ usageFile' = FileAfter(usageFile, usage, usage', writable)
    /\ UNCHANGED <<now, pairs, writable>>
    /\ IF ~canMakeRequest(usage, now)
       THEN /\ result' = Response("poll", "API usage limit reached")
            /\ UNCHANGED <<trackedFlights, heap, tasks, running>>
       ELSE LET cycle == Least((1..(Cardinality(running) + 1)) \ running)
                list == flightsToCheck(trackedFlights, heap, usage, now)
                launched == UNION {LaunchCheck(list[i], heap, usage, now, cycle) :
                                      i \in DOMAIN list}
                reg == Pruned(trackedFlights, heap)
            IN /\ trackedFlights' = reg
               /\ tasks' = tasks \cup launched
               /\ heap' = Collect(heap, reg, tasks')
               /\ running' = IF list # <<>> THEN running \cup {cycle} ELSE running
               /\ result' = Response("poll", IF list # <<>> THEN "waiting" ELSE "returned")

\* The rest of checkSingleFlight up to the channel post, run when the provider answers.
CheckReply(t, reply) ==
    LET res == Settle(t.searchType, t.phase, reply)
        rest == tasks \ {t}
        tracking == heap[t.ref]
    IN /\ t \in Checks(tasks) \ Posting(tasks)
       /\ usage' = UsageAfterReply(usage, now, reply)
       /\ usageFile' = FileAfter(usageFile, usage, usage', writable)
       /\ UNCHANGED <<now, running, pairs, trackedFlights, left, writable>>
       /\ CASE res.kind = "retry" ->
                 /\ tasks' = rest \cup {[t EXCEPT !.phase = "fallback"]}
                 /\ result' = Response("check", "fallback request")
                 /\ UNCHANGED heap
            [] res.kind \in {"null", "throw"} ->
                 /\ tasks' = rest
                 /\ result' = Response("check", IF res.kind = "null" THEN "not found"
                                                                    ELSE "error")
                 /\ heap' = Collect([heap EXCEPT ![t.ref] = AfterFailedCheck(tracking, now)],
                                    trackedFlights, rest)
            [] res.kind = "flight" ->
                 IF shouldSendUpdate(res.flight.flight_status, tracking.lastStatus)
                 THEN /\ tasks' = rest \cup {[t EXCEPT !.phase = "posting",
                                                       !.flight = res.flight,
                                                       !.previousStatus = tracking.lastStatus]}
                      /\ result' = Response("check", "posting")
                      /\ UNCHANGED heap
                 ELSE /\ tasks' = rest
                      /\ result' = Response("check", "nothing to report")
                      /\ heap' = Collect([heap EXCEPT ![t.ref] =
                                             AfterQuietCheck(tracking, res.flight, now)],
                                         trackedFlights, rest)

\* The rest of checkSingleFlight, run when chat.postMessage settles.
PostSettles(t, delivered) ==
    LET rest == tasks \ {t}
    IN /\ t \in Posting(tasks)
       /\ tasks' = rest
       /\ heap' = Collect([heap EXCEPT ![t.ref] =
                                  AfterPost(heap[t.ref], t.flight, now, delivered)],
                          trackedFlights, rest)
       /\ result' = Response("post", IF delivered THEN "delivered" ELSE "failed")
       /\ UNCHANGED <<now, usage, trackedFlights, running, pairs, left, usageFile, writable>>

CycleReturnAtOnce(cycle) ==
    /\ cycle \in running
    /\ running' = running \ {cycle}
    /\ result' = Response("poll", "returned")
    /\ UNCHANGED <<now, usage, trackedFlights, heap, tasks, pairs, left, usageFile, writable>>
CycleReturnAfterEveryPromise(cycle) ==
    /\ cycle \in running
    /\ \A t \in tasks : t.cycle # cycle
    /\ running' = running \ {cycle}
    /\ result' = Response("poll", "returned")
    /\ UNCHANGED <<now, usage, trackedFlights, heap, tasks, pairs, left, usageFile, writable>>
\* checkFlightUpdates returns once every check it launched has settled.
CycleReturn(cycle) ==
    /\ cycle \in running
    /\ \A t \in Checks(tasks) : t.cycle # cycle
    /\ running' = running \ {cycle}
    /\ result' = Response("poll", "returned")
    /\ UNCHANGED <<now, usage, trackedFlights, heap, tasks, pairs, left, usageFile, writable>>

\* ---------------------------------------------------------------- initial states
UA4 == <<"U", "A", "4">>
N1 == <<"N", "1">>
C1 == <<"C", "1">>
C2 == <<"C", "2">>
Pair(identifier, channelId) == [identifier |-> identifier, channelId |-> channelId]

SearchTypeOf(identifier) ==
    IF isFlightNumber(Clean(identifier)) THEN "flight_number" ELSE "tail_number"

\* An entry as earlier commands and poll cycles can have left it: its status
\* baseline, the notifications counted so far and the landed flag.
Fresh == [lastStatus |-> "active", updateCount |-> 0, hasLanded |-> FALSE]
Draining == [lastStatus |-> "landed", updateCount |-> PruneThreshold, hasLanded |-> TRUE]
Completed == [lastStatus |-> "active", updateCount |-> PruneThreshold + 1, hasLanded |-> TRUE]
Shapes == {Fresh, Draining, Completed}

Aged(pair, shape, t) ==
    [flight |-> [flight_status |-> shape.lastStatus,
                 searchType |-> SearchTypeOf(pair.identifier)],
     channelId |-> pair.channelId,
     userId |-> "U1",
     identifier |-> pair.identifier,
     lastStatus |-> shape.lastStatus,
     lastUpdated |-> t,
     updateCount |-> shape.updateCount,
     hasLanded |-> shape.hasLanded]

\* The least count at which usage is critical.
CriticalCount == (CriticalPercent * MonthlyLimit + 99) \div 100

\* The quota state of the given month after c recorded requests.
StoredUsage(date, c) ==
    [month |-> date.month, year |-> date.year, count |-> c,
     requests |-> [i \in 1..(IF c > LogCap THEN LogCap ELSE c) |->
                      i + (IF c > LogCap THEN c - LogCap ELSE 0)]]

\* The registry is empty, or every pair is tracked, entry i last fetched
\* Len - i ticks before the clock starts.
InitWith(ps, counts, rows, budget) ==
    /\ now = 0
    /\ pairs = Range(ps)
    /\ left = budget
    /\ usage \in {StoredUsage(WallDate(0), c) : c \in counts}
    /\ usageFile = File("data", usage)
    /\ writable = TRUE
    /\ tasks = {}
    /\ running = {}
    /\ result = None
    /\ \/ /\ trackedFlights = <<>>
          /\ heap = [r \in Refs |-> NoObject]
       \/ \E shape \in rows :
             /\ trackedFlights =
                    [i \in DOMAIN ps |->
                        [key |-> KeyOf(ps[i].identifier, ps[i].channelId), ref |-> i]]
             /\ heap = [r \in Refs |->
                           IF r \in DOMAIN ps
                           THEN Aged(ps[r], shape[r], r - Len(ps))
                           ELSE NoObject]

MainPairs == <<Pair(UA4, C1), Pair(N1, C2)>>
MainRows == {<<Fresh, Fresh>>, <<Fresh, Draining>>, <<Draining, Fresh>>, <<Completed, Draining>>}
Init == InitWith(MainPairs, {CriticalCount - 1, MonthlyLimit}, MainRows, MaxTriggers)

Next ==
    \/ Tick
    \/ \E p \in pairs, u \in UserIds : Command(p.identifier, p.channelId, u)
    \/ \E t \in tasks, reply \in Replies : LookupReply(t, reply)
    \/ \E p \in pairs : StopTracking(p.identifier, p.channelId)
    \/ CheckFlightUpdates
    \/ \E t \in tasks, reply \in Replies : CheckReply(t, reply)
    \/ \E t \in tasks, delivered \in BOOLEAN : PostSettles(t, delivered)
    \/ \E cycle \in running : CycleReturn(cycle)

Spec == Init /\ [][Next]_vars

\* The same with room for one more command, stop or poll cycle, so that two
\* poll cycles can be waiting at once.
InitOverlap ==
    InitWith(MainPairs, {CriticalCount - 1, MonthlyLimit}, MainRows, MaxTriggers + 1)
SpecOverlap == InitOverlap /\ [][Next]_vars

\* Three tracked flights, last fetched 2, 1 and 0 ticks before the clock starts,
\* with usage at the critical threshold.
CapPairs == <<Pair(UA4, C1), Pair(UA4, C2), Pair(N1, C1)>>
CapRows == {<<Fresh, Fresh, Fresh>>}
InitCap == InitWith(CapPairs, {CriticalCount}, CapRows, MaxTriggers)
SpecCap == InitCap /\ [][Next]_vars


\* One tracked flight and room for a poll cycle and one command or stop while
\* the cycle's check is pending.
RacePairs == <<Pair(UA4, C1)>>
RaceRows == {<<Fresh>>}
InitRace == InitWith(RacePairs, {CriticalCount - 1}, RaceRows, MaxTriggers + 1)
SpecRace == InitRace /\ [][Next]_vars

\* One tracked flight whose last check fetched the status unknown: the
\* snapshot holds unknown, lastStatus the status reported before.
ReturnShapes == {Fresh, Draining}
InitReturn ==
    /\ now = 0
    /\ pairs = Range(RacePairs)
    /\ left = MaxTriggers
    /\ usage = StoredUsage(WallDate(0), CriticalCount - 1)
    /\ usageFile = File("data", usage)
    /\ writable = TRUE
    /\ tasks = {}
    /\ running = {}
    /\ result = None
    /\ trackedFlights = <<[key |-> KeyOf(UA4, C1), ref |-> 1]>>
    /\ \E shape \in ReturnShapes :
          heap = [r \in Refs |->
                     IF r = 1
                     THEN [Aged(Pair(UA4, C1), shape, -1)
                              EXCEPT !.flight.flight_status = "unknown"]
                     ELSE NoObject]
SpecReturn == InitReturn /\ [][Next]_vars

\* ---------------------------------------------------------------- the cron schedule under critical usage
\* Five tracked flights, a poll cycle every 5 minutes, and the conditions C38
\* and C40 speak of.  Times are counted from the start of the current 5-minute
\* period: when the next period starts every lastUpdated moves 5 minutes back,
\* and a flight not updated for StarveFloor ticks or longer counts as
\* StarveFloor ticks old.
StarveFloor == 12
C3 == <<"C", "3">>
StarvePairs == <<Pair(UA4, C1), Pair(UA4, C2), Pair(UA4, C3), Pair(N1, C1), Pair(N1, C2)>>
StarveStatuses == {"Active", "Unknown"}

\* Every tracked flight was last updated more than 5 minutes ago, no two at
\* the same time, and the month's count is at the critical threshold.
InitStarve ==
    /\ now = 0
    /\ pairs = Range(StarvePairs)
    /\ left = 1
    /\ usage = StoredUsage(WallDate(0), CriticalCount)
    /\ usageFile = File("data", usage)
    /\ writable = TRUE
    /\ tasks = {}
    /\ running = {}
    /\ result = None
    /\ trackedFlights =
           [i \in DOMAIN StarvePairs |->
               [key |-> KeyOf(StarvePairs[i].identifier, StarvePairs[i].channelId),
                ref |-> i]]
    /\ heap = [r \in Refs |->
                  IF r \in DOMAIN StarvePairs
                  THEN Aged(StarvePairs[r], Fresh, r - Len(StarvePairs) - 3)
                  ELSE NoObject]

\* The cron job fires: once in every period.
CronFires == CheckFlightUpdates

\* The provider answers a check with the flight, in a status that is nothing
\* to report.  The month's count is held where it is: C38 supposes that usage
\* stays critical, which in the program lasts for as many answers as there
\* are requests left below the limit.
FetchSucceeds(t, status) ==
    LET res == Settle(t.searchType, t.phase,
                      [ok |-> TRUE, code |-> 200, flights |-> <<[status |-> status]>>])
        rest == tasks \ {t}
        tracking == heap[t.ref]
    IN /\ t \in Checks(tasks) \ Posting(tasks)
       /\ res.kind = "flight"
       /\ ~shouldSendUpdate(res.flight.flight_status, tracking.lastStatus)
       /\ tasks' = rest
       /\ result' = Response("check", "nothing to report")
       /\ heap' = Collect([heap EXCEPT ![t.ref] = AfterQuietCheck(tracking, res.flight, now)],
                          trackedFlights, rest)
       /\ UNCHANGED <<now, usage, trackedFlights, running, pairs, left, usageFile, writable>>

Elapsed(tracking) ==
    IF tracking = NoObject THEN tracking
    ELSE [tracking EXCEPT !.lastUpdated =
             IF @ - 2 < 0 - StarveFloor THEN 0 - StarveFloor ELSE @ - 2]
\* The cycle of this period has returned and 5 minutes have passed since it
\* started: the cron job is due again.
NextPeriod ==
    /\ left = 0
    /\ tasks = {}
    /\ running = {}
    /\ left' = 1
    /\ heap' = [r \in Refs |-> Elapsed(heap[r])]
    /\ result' = None
    /\ UNCHANGED <<now, usage, trackedFlights, tasks, running, pairs, usageFile, writable>>

StarveNext ==
    \/ CronFires
    \/ \E t \in tasks, status \in StarveStatuses : FetchSucceeds(t, status)
    \/ \E cycle \in running : CycleReturn(cycle)
    \/ NextPeriod

\* node-cron fires the job every 5 minutes, every request settles, and
\* Promise.allSettled resolves once they all have.
SpecStarve ==
    /\ InitStarve
    /\ [][StarveNext]_vars
    /\ WF_vars(CronFires)
    /\ WF_vars(\E t \in tasks, status \in StarveStatuses : FetchSucceeds(t, status))
    /\ WF_vars(\E cycle \in running : CycleReturn(cycle))
    /\ WF_vars(NextPeriod)


\* The same with the scheduling C40 supposes: every fetch and every post of
\* a poll cycle settles, and Promise.allSettled resolves once they all have.
\* Nothing is supposed of the lookups of commands.
SpecSettle ==
    /\ InitRace
    /\ [][Next]_vars
    /\ WF_vars(\E t \in tasks, reply \in Replies : CheckReply(t, reply))
    /\ WF_vars(\E t \in tasks, delivered \in BOOLEAN : PostSettles(t, delivered))
    /\ WF_vars(\E cycle \in running : CycleReturn(cycle))
\* Commands that spell one flight in three ways, in one channel, starting from
\* an empty registry.
UA_dash_4 == <<"U", "A", "-", "4">>
ua4 == <<"u", "a", "4">>
AliasPairs == <<Pair(UA4, C1), Pair(ua4, C1), Pair(UA_dash_4, C1)>>
InitAlias == InitWith(AliasPairs, {CriticalCount - 1}, {}, MaxTriggers + 1)
SpecAlias == InitAlias /\ [][Next]_vars
\* Commands for pairs of arbitrary strings, starting from an empty registry.
UA_4 == <<"U", "A", "_", "4">>
UA == <<"U", "A">>
C4_C1 == <<"4", "_", "C", "1">>
KeyPairLists == {<<Pair(UA4, C1), Pair(UA4, C2)>>, <<Pair(UA_4, C1), Pair(UA, C4_C1)>>}
InitKeys == \E ps \in KeyPairLists : InitWith(ps, {CriticalCount - 1}, {}, MaxTriggers + 1)
SpecKeys == InitKeys /\ [][Next]_vars

\* Commands whose text is empty, too short, mostly punctuation, of no known
\* format, a flight number or a tail number, with the quota short of the limit
\* or used up, and the registry empty or holding one flight due for a check.
NoText == <<>>
OneLetter == <<"A">>
LetterAndDash == <<"A", "-">>
TwoDigits == <<"1", "2">>
LookupIdentifiers == {NoText, OneLetter, LetterAndDash, TwoDigits, UA4, N1}
LookupCounts == {MonthlyLimit - 2, MonthlyLimit - 1, MonthlyLimit}
InitLookup ==
    /\ now = 0
    /\ pairs = {Pair(identifier, C1) : identifier \in LookupIdentifiers}
    /\ left = MaxTriggers
    /\ usage \in {StoredUsage(WallDate(0), c) : c \in LookupCounts}
    /\ usageFile = File("data", usage)
    /\ writable = TRUE
    /\ tasks = {}
    /\ running = {}
    /\ result = None
    /\ \/ /\ trackedFlights = <<>>
          /\ heap = [r \in Refs |-> NoObject]
       \/ \E identifier \in {UA4, N1} :
             /\ trackedFlights = <<[key |-> KeyOf(identifier, C1), ref |-> 1]>>
             /\ heap = [r \in Refs |->
                           IF r = 1 THEN Aged(Pair(identifier, C1), Fresh, -1) ELSE NoObject]
SpecLookup == InitLookup /\ [][Next]_vars

\* ---------------------------------------------------------------- the comparison on its own
\* A check has fetched a flight for the one tracked entry, for every pair of a
\* fetched status and a status the entry last reported.
Statuses ==
    updateTriggers \cup {"unknown", "result unknown", "delayed", "en route"}
Fetched(status) == [flight_status |-> status, searchType |-> "flight_number"]
InitStatus ==
    /\ now = 0
    /\ pairs = {Pair(UA4, C1)}
    /\ left = 0
    /\ usage = StoredUsage(WallDate(0), 1)
    /\ usageFile = File("data", usage)
    /\ writable = TRUE
    /\ running = {1}
    /\ result = None
    /\ trackedFlights = <<[key |-> KeyOf(UA4, C1), ref |-> 1]>>
    /\ \E current \in Statuses, previous \in Statuses :
          /\ heap = [r \in Refs |->
                        IF r = 1
                        THEN Aged(Pair(UA4, C1), [Fresh EXCEPT !.lastStatus = previous], -3)
                        ELSE NoObject]
          /\ tasks = {[Task("check", 1, 1, UA4, C1, "U1", "flight_number")
                          EXCEPT !.flight = Fetched(current)]}

\* checkSingleFlight asks whether the fetched status is to be reported.
ShouldSendUpdateCall(t) ==
    /\ t \in Checks(tasks)
    /\ result' = Response("shouldSendUpdate",
                          BoolText(shouldSendUpdate(t.flight.flight_status,
                                                    heap[t.ref].lastStatus)))
    /\ UNCHANGED <<now, usage, trackedFlights, heap, tasks, running, pairs, left,
                   usageFile, writable>>

StatusNext == \E t \in tasks : ShouldSendUpdateCall(t)
SpecStatus == InitStatus /\ [][StatusNext]_vars

\* ---------------------------------------------------------------- the tracker on its own
\* Calls of the tracker's public methods, the turn of the month, a restart of
\* the process and the file system starting or ceasing to accept writes.
\* A method that reads: the month check, then the value it returns.
Accessor(name, value) ==
    /\ usage' = Rolled(usage, now)
    /\ usageFile' = FileAfter(usageFile, usage, usage', writable)
    /\ result' = Response(name, value)
    /\ UNCHANGED <<now, trackedFlights, heap, tasks, running, pairs, left, writable>>

CanMakeRequestCall == Accessor("canMakeRequest", BoolText(canMakeRequest(usage, now)))
GetRemainingRequestsCall ==
    Accessor("getRemainingRequests", ToString(getRemainingRequests(usage, now)))
\* The percentage is count * 100 / monthlyLimit; the text holds count * 100.
GetUsagePercentageCall ==
    Accessor("getUsagePercentage", ToString(100 * Rolled(usage, now).count))
GetUsageStatusCall == Accessor("getUsageStatus", UsageStatusOf(usage, now))
ShouldLimitTrackingCall ==
    Accessor("shouldLimitTracking", BoolText(shouldLimitTracking(usage, now)))

RecordRequestCall ==
    /\ left > 0
    /\ left' = left - 1
    /\ usage' = recordRequest(usage, now)
    /\ usageFile' = FileAfter(usageFile, usage, usage', writable)
    /\ result' = Response("recordRequest", "returned")
    /\ UNCHANGED <<now, trackedFlights, heap, tasks, running, pairs, writable>>

MonthTurns ==
    /\ now' \in {MaxTime + 1, MaxTime + 2}
    /\ now' > now
    /\ result' = None
    /\ UNCHANGED <<usage, trackedFlights, heap, tasks, running, pairs, left,
                   usageFile, writable>>

\* new ApiUsageTracker(): the process starts again.
Construct ==
    /\ usage' = loadUsage(usageFile, now)
    /\ usageFile' = FileAfterLoad(usageFile, now, writable)
    /\ result' = Response("constructor", "returned")
    /\ UNCHANGED <<now, trackedFlights, heap, tasks, running, pairs, left, writable>>

DiskFlips ==
    /\ writable' = ~writable
    /\ result' = None
    /\ UNCHANGED <<now, usage, trackedFlights, heap, tasks, running, pairs, left, usageFile>>

WarningCount == (WarningPercent * MonthlyLimit + 99) \div 100
QuotaCounts ==
    {0, WarningCount - 1, WarningCount, CriticalCount - 1, CriticalCount,
     MonthlyLimit, MonthlyLimit + 1, LogCap - 1, LogCap + 1}
StaleDates == {[month |-> 9, year |-> 2026], [month |-> 10, year |-> 2025]}
\* A file that cannot be read may hold a usage object all the same.
QuotaFiles ==
    {File(k, NoData) : k \in FileKinds \ {"data"}}
    \cup {File("unreadable", StoredUsage(WallDate(0), MonthlyLimit))}
    \cup {File("data", StoredUsage(d, c)) : d \in {WallDate(0)} \cup StaleDates,
                                            c \in QuotaCounts}

\* The tracker as its constructor leaves it, for every file it can find.
InitQuota ==
    /\ now = 0
    /\ pairs = {}
    /\ left = MaxRecords
    /\ trackedFlights = <<>>
    /\ heap = [r \in Refs |-> NoObject]
    /\ tasks = {}
    /\ running = {}
    /\ result = Response("constructor", "returned")
    /\ writable \in BOOLEAN
    /\ \E file \in QuotaFiles :
          /\ usage = loadUsage(file, 0)
          /\ usageFile = FileAfterLoad(file, 0, writable)

QuotaNext ==
    \/ CanMakeRequestCall
    \/ GetRemainingRequestsCall
    \/ GetUsagePercentageCall
    \/ GetUsageStatusCall
    \/ ShouldLimitTrackingCall
    \/ RecordRequestCall
    \/ MonthTurns
    \/ Construct
    \/ DiskFlips

SpecQuota == InitQuota /\ [][QuotaNext]_vars

\* ---------------------------------------------------------------- claims
\* C1: a change of status to a trigger value is posted exactly once per
\* transition, whatever the interleaving of poll cycles: no two pending posts
\* report the same transition (same baseline, same new status) of one tracked
\* object.
C1_OncePerTransition ==
    \A s, t \in Posting(tasks) :
        (/\ s.ref = t.ref
         /\ s.previousStatus = t.previousStatus
         /\ s.flight.flight_status = t.flight.flight_status) => s = t

\* C2: a poll cycle that starts with the quota exhausted fetches nothing, posts
\* nothing, removes nothing (completed entries included) and leaves every
\* field of every tracked flight, lastUpdated included, as it was.
C2_ExhaustedQuotaFrame ==
    [][(/\ left' = left - 1
        /\ result'.type = "poll"
        /\ Rolled(usage, now).count >= MonthlyLimit)
       => UNCHANGED <<trackedFlights, heap, tasks, running>>]_vars

C2_Witness ==
    /\ result = Response("poll", "API usage limit reached")
    /\ usage.count >= MonthlyLimit
    /\ \E i \in DOMAIN trackedFlights :
          /\ heap[trackedFlights[i].ref].hasLanded
          /\ heap[trackedFlights[i].ref].updateCount > PruneThreshold
    /\ \E i \in DOMAIN trackedFlights :
          getTime(now) - getTime(heap[trackedFlights[i].ref].lastUpdated) > FiveMinutesMs

\* C3: with usage critical and more than two stale candidates, a poll cycle
\* fetches exactly two of them, none fetched older than one left out, and the
\* ones left out stay tracked with every field as it was.
C3_CriticalKeepsTwoNewest ==
    [][LET stale == {i \in DOMAIN trackedFlights :
                        LET o == heap[trackedFlights[i].ref]
                        IN /\ ~(o.hasLanded /\ o.updateCount > PruneThreshold)
                           /\ getTime(now) - getTime(o.lastUpdated) > FiveMinutesMs}
           fetched == {i \in stale : \E t \in tasks' \ tasks : t.ref = trackedFlights[i].ref}
       IN (/\ left' = left - 1
           /\ result'.type = "poll"
           /\ Rolled(usage, now).count < MonthlyLimit
           /\ 100 * Rolled(usage, now).count >= CriticalPercent * MonthlyLimit
           /\ Cardinality(stale) > 2)
          => /\ Cardinality(fetched) = 2
             /\ Cardinality(tasks' \ tasks) = 2
             /\ \A t \in tasks' \ tasks : \E i \in fetched : t.ref = trackedFlights[i].ref
             /\ \A i \in fetched, j \in stale \ fetched :
                   heap[trackedFlights[i].ref].lastUpdated
                       >= heap[trackedFlights[j].ref].lastUpdated
             /\ \A j \in stale \ fetched :
                   /\ \E k \in DOMAIN trackedFlights' : trackedFlights'[k] = trackedFlights[j]
                   /\ heap'[trackedFlights[j].ref] = heap[trackedFlights[j].ref]]_vars

C3_Witness ==
    /\ result = Response("poll", "waiting")
    /\ 100 * usage.count >= CriticalPercent * MonthlyLimit
    /\ Len(trackedFlights) = 3
    /\ Cardinality(tasks) = 2
    /\ \E i \in DOMAIN trackedFlights :
          /\ \A t \in tasks : t.ref # trackedFlights[i].ref
          /\ getTime(now) - getTime(heap[trackedFlights[i].ref].lastUpdated) > FiveMinutesMs
          /\ \A t \in tasks :
                heap[t.ref].lastUpdated > heap[trackedFlights[i].ref].lastUpdated

\* C4: a poll cycle that passes the quota gate removes every entry with
\* hasLanded and updateCount > 10 without fetching it, and removes no entry
\* whose updateCount is at most 10.
C4_CompletedPrunedUnfetched ==
    [][(/\ left' = left - 1
        /\ result'.type = "poll"
        /\ Rolled(usage, now).count < MonthlyLimit)
       => \A i \in DOMAIN trackedFlights :
             LET e == trackedFlights[i]
                 o == heap[e.ref]
             IN /\ (o.hasLanded /\ o.updateCount > 10)
                       => /\ \A k \in DOMAIN trackedFlights' : trackedFlights'[k].key # e.key
                          /\ \A t \in tasks' \ tasks : t.ref # e.ref
                /\ o.updateCount <= 10
                       => \E k \in DOMAIN trackedFlights' : trackedFlights'[k] = e]_vars

C4_Witness ==
    /\ result = Response("poll", "returned")
    /\ left = MaxTriggers - 1
    /\ tasks = {}
    /\ Len(trackedFlights) = 1
    /\ heap[trackedFlights[1].ref].hasLanded
    /\ heap[trackedFlights[1].ref].updateCount = PruneThreshold

\* C5: the steps of a poll cycle remove an entry only at the start of the
\* cycle and only when it has hasLanded and updateCount > 10; a fetch that
\* throws or finds nothing and a post that is not delivered remove nothing,
\* and the cycle that launched the check keeps waiting for the others.
C5_PollRemovesOnlyCompleted ==
    [][result'.type \in {"poll", "check", "post"}
       => /\ \A i \in DOMAIN trackedFlights :
                (\A k \in DOMAIN trackedFlights' : trackedFlights'[k] # trackedFlights[i])
                    => /\ left' = left - 1
                       /\ result'.type = "poll"
                       /\ heap[trackedFlights[i].ref].hasLanded
                       /\ heap[trackedFlights[i].ref].updateCount > 10
          /\ result'.type \in {"check", "post"}
                => /\ trackedFlights' = trackedFlights
                   /\ running' = running
                   /\ \A t \in tasks \ tasks' : t.cycle \in running']_vars

C5_Witness ==
    /\ result = Response("post", "failed")
    /\ left = MaxTriggers - 1
    /\ Len(trackedFlights) = 2
    /\ running # {}

C7_StartTrackingUpserts ==
    [][result' = Response("in_channel", "Now tracking")
       => \A t \in tasks \ tasks' :
             LET key == KeyOf(t.identifier, t.channelId)
                 was == \E i \in DOMAIN trackedFlights : trackedFlights[i].key = key
                 at == {k \in DOMAIN trackedFlights' : trackedFlights'[k].key = key}
             IN /\ Cardinality(at) = 1
                /\ Len(trackedFlights') = Len(trackedFlights) + (IF was THEN 0 ELSE 1)
                /\ \A i \in DOMAIN trackedFlights :
                      trackedFlights[i].key # key
                          => /\ trackedFlights'[i] = trackedFlights[i]
                             /\ heap'[trackedFlights[i].ref] = heap[trackedFlights[i].ref]
                /\ \A k \in at :
                      LET o == heap'[trackedFlights'[k].ref]
                          info == [flight |-> o.flight, channelId |-> o.channelId,
                                   userId |-> o.userId, identifier |-> o.identifier]
                          again == startTracking(trackedFlights', info, trackedFlights'[k].ref)
                      IN /\ o.identifier = t.identifier
                         /\ o.channelId = t.channelId
                         /\ o.userId = t.userId
                         /\ o.updateCount = 0
                         /\ o.lastStatus = o.flight.flight_status
                         /\ o.hasLanded = (o.flight.flight_status = "landed")
                         /\ o.flight.searchType = t.searchType
                         /\ o.lastUpdated = now
                         /\ again = trackedFlights'
                         /\ NewTracked(info, now + 1) = [o EXCEPT !.lastUpdated = now + 1]]_vars

C7_Witness ==
    /\ result = Response("in_channel", "Now tracking")
    /\ left = MaxTriggers - 1
    /\ Len(trackedFlights) = 2
    /\ heap[trackedFlights[1].ref].updateCount = 0
    /\ heap[trackedFlights[1].ref].lastStatus = "landed"
    /\ heap[trackedFlights[1].ref].hasLanded
    /\ heap[trackedFlights[2].ref].updateCount = PruneThreshold

\* C8: stopTracking returns true exactly when the pair was tracked; afterwards
\* the pair is not tracked, the count is one less exactly when it returned
\* true, and stopping the pair again would return false.
C8_StopTrackingRemoves ==
    [][\A p \in pairs :
          StopTracking(p.identifier, p.channelId)
          => LET key == KeyOf(p.identifier, p.channelId)
                 was == \E i \in DOMAIN trackedFlights : trackedFlights[i].key = key
             IN /\ result' = Response("boolean", IF was THEN "true" ELSE "false")
                /\ ~isTracking(trackedFlights', p.identifier, p.channelId)
                /\ getTrackedFlightsCount(trackedFlights')
                       = getTrackedFlightsCount(trackedFlights) - (IF was THEN 1 ELSE 0)
                /\ stopTracking(trackedFlights', p.identifier, p.channelId)
                       = trackedFlights']_vars

C8_Witness ==
    /\ result = Response("boolean", "true")
    /\ left = MaxTriggers - 1
    /\ Len(trackedFlights) = 1

\* C9: a check posts exactly when the fetched status differs from lastStatus
\* and is a trigger value; once the post has settled lastStatus is the new
\* status, updateCount is one more and hasLanded is true if the new status is
\* landed and otherwise as before; a check that has nothing to report leaves
\* lastStatus, updateCount and hasLanded as they were.
C9_TransitionUpdatesFields ==
    [][/\ result'.type = "post"
          => \A t \in tasks \ tasks' :
                t.ref \in Live(trackedFlights', tasks')
                    => /\ heap'[t.ref].lastStatus = t.flight.flight_status
                       /\ heap'[t.ref].updateCount = heap[t.ref].updateCount + 1
                       /\ heap'[t.ref].hasLanded
                              = (t.flight.flight_status = "landed" \/ heap[t.ref].hasLanded)
       /\ result' = Response("check", "posting")
          => /\ heap' = heap
             /\ \A t \in tasks' \ tasks :
                   /\ t.flight.flight_status # heap[t.ref].lastStatus
                   /\ t.flight.flight_status \in
                          {"scheduled", "active", "landed", "cancelled", "incident", "diverted"}
       /\ result' = Response("check", "nothing to report")
          => \A t \in tasks \ tasks' :
                t.ref \in Live(trackedFlights', tasks')
                    => /\ heap'[t.ref].lastStatus = heap[t.ref].lastStatus
                       /\ heap'[t.ref].updateCount = heap[t.ref].updateCount
                       /\ heap'[t.ref].hasLanded = heap[t.ref].hasLanded
                       /\ \/ heap'[t.ref].flight.flight_status = heap[t.ref].lastStatus
                          \/ heap'[t.ref].flight.flight_status \notin
                                 {"scheduled", "active", "landed", "cancelled", "incident",
                                  "diverted"}]_vars

C9_Witness ==
    /\ result.type = "post"
    /\ \E i \in DOMAIN trackedFlights :
          /\ heap[trackedFlights[i].ref].lastStatus = "active"
          /\ heap[trackedFlights[i].ref].updateCount = PruneThreshold + 1
          /\ heap[trackedFlights[i].ref].hasLanded
          /\ heap[trackedFlights[i].ref].lastUpdated = now

\* C10: a check whose fetch finds nothing or throws changes no field of any
\* tracked flight, posts nothing, leaves the entry tracked, and leaves it a
\* candidate of the next cycle if it was one.
C10_FailedFetchChangesNothing ==
    [][(result'.type = "check" /\ result'.text \in {"not found", "error"})
       => /\ trackedFlights' = trackedFlights
          /\ \A r \in Live(trackedFlights', tasks') : heap'[r] = heap[r]
          /\ tasks' \subseteq tasks
          /\ \A t \in tasks \ tasks' :
                \A i \in DOMAIN trackedFlights :
                    (/\ trackedFlights[i].ref = t.ref
                     /\ getTime(now) - getTime(heap[t.ref].lastUpdated) > FiveMinutesMs)
                        => getTime(now) - getTime(heap'[trackedFlights'[i].ref].lastUpdated)
                               > FiveMinutesMs]_vars

C10_Witness ==
    /\ result = Response("check", "error")
    /\ left = MaxTriggers - 1
    /\ tasks = {}
    /\ Len(trackedFlights) = 2
    /\ \A i \in DOMAIN trackedFlights :
          /\ heap[trackedFlights[i].ref].updateCount = 0
          /\ getTime(now) - getTime(heap[trackedFlights[i].ref].lastUpdated) > FiveMinutesMs

\* C11: when the post for a reportable transition fails, the check still ends
\* with lastStatus the new status, updateCount one more, hasLanded set if the
\* status is landed, and snapshot and lastUpdated refreshed; nothing is
\* propagated: the other pending checks are untouched and their cycle keeps
\* waiting for them.
C11_FailedPostKeepsUpdate ==
    [][result' = Response("post", "failed")
       => \A t \in tasks \ tasks' :
             /\ tasks' = tasks \ {t}
             /\ running' = running
             /\ t.cycle \in running'
             /\ trackedFlights' = trackedFlights
             /\ \A r \in Live(trackedFlights', tasks') \ {t.ref} : heap'[r] = heap[r]
             /\ t.ref \in Live(trackedFlights', tasks')
                   => /\ heap'[t.ref].lastStatus = t.flight.flight_status
                      /\ heap'[t.ref].updateCount = heap[t.ref].updateCount + 1
                      /\ heap'[t.ref].hasLanded
                             = (t.flight.flight_status = "landed" \/ heap[t.ref].hasLanded)
                      /\ heap'[t.ref].flight = t.flight
                      /\ heap'[t.ref].lastUpdated = now]_vars

C11_Witness ==
    /\ result = Response("post", "failed")
    /\ \E t \in Checks(tasks) : t.cycle \in running
    /\ \E i \in DOMAIN trackedFlights :
          /\ heap[trackedFlights[i].ref].lastStatus = "landed"
          /\ heap[trackedFlights[i].ref].updateCount = 1
          /\ heap[trackedFlights[i].ref].hasLanded
          /\ heap[trackedFlights[i].ref].lastUpdated = now

\* C12: hasLanded is sticky: while an entry stays in the registry and is not
\* re-created by startTracking, no step takes its hasLanded from true to
\* false; and a check whose fetch returned the status landed ends with
\* hasLanded true on the entry object it was launched for.
C12_HasLandedSticky ==
    [][/\ \A i \in DOMAIN trackedFlights :
             LET e == trackedFlights[i]
                 recreated == /\ result' = Response("in_channel", "Now tracking")
                              /\ \E t \in tasks \ tasks' :
                                    KeyOf(t.identifier, t.channelId) = e.key
             IN (heap[e.ref].hasLanded /\ ~recreated)
                    => \A k \in DOMAIN trackedFlights' :
                          trackedFlights'[k].key = e.key
                              => heap'[trackedFlights'[k].ref].hasLanded
       /\ result' = Response("check", "nothing to report")
             => \A t \in tasks \ tasks' :
                   (/\ t.ref \in Live(trackedFlights', tasks')
                    /\ heap'[t.ref].flight.flight_status = "landed")
                       => heap'[t.ref].hasLanded
       /\ result'.type = "post"
             => \A t \in tasks \ tasks' :
                   (/\ t.ref \in Live(trackedFlights', tasks')
                    /\ t.flight.flight_status = "landed")
                       => heap'[t.ref].hasLanded]_vars

C12_Witness ==
    /\ result = Response("check", "nothing to report")
    /\ \E i \in DOMAIN trackedFlights :
          /\ heap[trackedFlights[i].ref].hasLanded
          /\ heap[trackedFlights[i].ref].lastStatus = "landed"
          /\ heap[trackedFlights[i].ref].flight.flight_status = "unknown"
          /\ heap[trackedFlights[i].ref].lastUpdated = now

\* C13 as claimed: after every fetch attempt of a poll cycle for an entry,
\* whether it returned a flight, returned null or failed, the entry's
\* lastUpdated is the time of that attempt.
C13_LastUpdatedAfterEveryAttempt ==
    [][(\/ result'.type = "post"
        \/ result' = Response("check", "nothing to report")
        \/ result' = Response("check", "not found")
        \/ result' = Response("check", "error"))
       => \A t \in tasks \ tasks' :
             t.ref \in MapRefs(trackedFlights') => heap'[t.ref].lastUpdated = now]_vars

\* C13 as amended: a check whose fetch returned a flight ends with lastUpdated
\* the time at which the check ends (after the post, if there was one); a
\* check whose fetch returned null or failed leaves lastUpdated as it was.
C13_LastUpdatedAfterFlightOnly ==
    [][/\ (result'.type = "post" \/ result' = Response("check", "nothing to report"))
          => \A t \in tasks \ tasks' :
                t.ref \in MapRefs(trackedFlights') => heap'[t.ref].lastUpdated = now
       /\ (result' = Response("check", "not found") \/ result' = Response("check", "error"))
          => \A t \in tasks \ tasks' :
                t.ref \in MapRefs(trackedFlights')
                    => heap'[t.ref].lastUpdated = heap[t.ref].lastUpdated]_vars

C13_Witness ==
    /\ result = Response("check", "not found")
    /\ left = MaxTriggers - 1
    /\ tasks = {}
    /\ \E i \in DOMAIN trackedFlights :
          getTime(now) - getTime(heap[trackedFlights[i].ref].lastUpdated) > FiveMinutesMs
    /\ \E i \in DOMAIN trackedFlights :
          /\ heap[trackedFlights[i].ref].lastUpdated = now
          /\ heap[trackedFlights[i].ref].updateCount = 1

\* C14: a poll cycle launches the fetch of every surviving candidate in the
\* step in which it starts, before it waits on any of them; it returns only
\* when none of the checks it launched is pending; and a step of one check
\* (a fetch that answers, fails, or a post that settles) leaves every other
\* pending check as it was.
C14_LaunchAllThenWaitForAll ==
    [][/\ (/\ left' = left - 1
           /\ result'.type = "poll"
           /\ Rolled(usage, now).count < MonthlyLimit)
          => LET stale == {i \in DOMAIN trackedFlights :
                              LET o == heap[trackedFlights[i].ref]
                              IN /\ ~(o.hasLanded /\ o.updateCount > PruneThreshold)
                                 /\ getTime(now) - getTime(o.lastUpdated) > FiveMinutesMs}
                 capped == /\ 100 * Rolled(usage, now).count >= CriticalPercent * MonthlyLimit
                           /\ Cardinality(stale) > 2
             IN /\ ~capped => \A i \in stale :
                                 \E t \in tasks' \ tasks : t.ref = trackedFlights[i].ref
                /\ \A t \in tasks' \ tasks :
                      /\ t.kind = "check"
                      /\ t.phase = "primary"
                      /\ t.cycle \in running' \ running
                /\ tasks \subseteq tasks'
       /\ \A t \in Checks(tasks') : t.cycle \in running'
       /\ \A c \in running \ running' : \A t \in Checks(tasks) : t.cycle # c
       /\ result'.type \in {"check", "post"}
          => /\ Cardinality(tasks \ tasks') = 1
             /\ Cardinality(tasks' \ tasks) <= 1
             /\ \A t \in tasks \ tasks', n \in tasks' \ tasks :
                   n.ref = t.ref /\ n.cycle = t.cycle]_vars

C14_Witness ==
    /\ result = Response("check", "error")
    /\ \E t \in Checks(tasks) :
          /\ t.cycle \in running
          /\ t.phase = "posting"
          /\ \E i \in DOMAIN trackedFlights :
                /\ trackedFlights[i].ref # t.ref
                /\ getTime(now) - getTime(heap[trackedFlights[i].ref].lastUpdated)
                       > FiveMinutesMs

\* C15: starting from a count within the monthly limit, the current-month
\* count never exceeds the limit, whatever the interleaving of command
\* lookups and the fetches a poll cycle launches together.
C15_CountWithinLimit == Rolled(usage, now).count <= MonthlyLimit

\* The count a call reads: the stored count in the stored month, 0 once the
\* wall-clock month or year has moved on.
CurrentCount ==
    IF usage.month = WallDate(now).month /\ usage.year = WallDate(now).year
    THEN usage.count
    ELSE 0

\* C16: canMakeRequest() returns true exactly when the count of the current
\* month, taken after the month check, is below the monthly limit: false at the
\* limit and above it, true for a count at or above the limit that was stored
\* in an earlier month.
C16_CanMakeRequestIffBelowLimit ==
    [][result'.type = "canMakeRequest"
          => result'.text = BoolText(CurrentCount < MonthlyLimit)]_vars

\* canMakeRequest() has answered true with a count at or above the limit of
\* an earlier month still on file.
C16_Witness ==
    /\ result = Response("canMakeRequest", "true")
    /\ usageFile.kind = "data"
    /\ usageFile.data.count >= MonthlyLimit
    /\ usageFile.data.month # WallDate(now).month
    /\ usage.count = 0

\* The state in memory is of an earlier month or year than the wall clock.
StoredMonthIsOver == usage.month # WallDate(now).month \/ usage.year # WallDate(now).year

AccessorNames ==
    {"canMakeRequest", "getRemainingRequests", "getUsagePercentage", "getUsageStatus",
     "shouldLimitTracking", "recordRequest"}

\* C17: a call of any accessor that finds a state of an earlier month or year
\* leaves the current month and year in the state and answers from count 0 and
\* an empty log: recordRequest leaves count 1 and its own entry alone in the
\* log, the others leave count 0 and answer as for an unused quota. This is so
\* at any call in the life of the process.
C17_EveryAccessorResetsFirst ==
    [][(StoredMonthIsOver /\ result'.type \in AccessorNames)
          => /\ usage'.month = WallDate(now).month
             /\ usage'.year = WallDate(now).year
             /\ IF result'.type = "recordRequest"
                THEN usage'.count = 1 /\ usage'.requests = <<1>>
                ELSE usage'.count = 0 /\ usage'.requests = <<>>
             /\ result'.type = "canMakeRequest" => result'.text = "true"
             /\ result'.type = "getRemainingRequests"
                   => result'.text = ToString(MonthlyLimit)
             /\ result'.type = "getUsagePercentage" => result'.text = "0"
             /\ result'.type = "getUsageStatus" => result'.text = "healthy"
             /\ result'.type = "shouldLimitTracking" => result'.text = "false"]_vars

\* The month has turned while the process ran, and recordRequest has left
\* count 1 although the file that could not be written still holds the old
\* month's count at or above the limit.
C17_Witness ==
    /\ now > MaxTime
    /\ result = Response("recordRequest", "returned")
    /\ usage.count = 1
    /\ usage.month = WallDate(now).month
    /\ usageFile.kind = "data"
    /\ usageFile.data.month = WallDate(0).month
    /\ usageFile.data.year = WallDate(0).year
    /\ usageFile.data.count >= MonthlyLimit

\* C18: getUsageStatus().status is critical iff 100 * count >= 95 * limit,
\* warning iff 80 * limit <= 100 * count < 95 * limit and healthy otherwise,
\* and shouldLimitTracking() is true exactly when the status is critical.
C18_StatusThresholds ==
    [][/\ result'.type = "getUsageStatus"
          => /\ result'.text = "critical" <=> 100 * CurrentCount >= 95 * MonthlyLimit
             /\ result'.text = "warning"
                   <=> /\ 80 * MonthlyLimit <= 100 * CurrentCount
                       /\ 100 * CurrentCount < 95 * MonthlyLimit
             /\ result'.text = "healthy" <=> 100 * CurrentCount < 80 * MonthlyLimit
       /\ result'.type = "shouldLimitTracking"
          => (result'.text = "true" <=> 100 * CurrentCount >= 95 * MonthlyLimit)]_vars

\* getUsageStatus() has answered warning at the last count before critical.
C18_Witness ==
    /\ result = Response("getUsageStatus", "warning")
    /\ 100 * usage.count < 95 * MonthlyLimit
    /\ 100 * (usage.count + 1) >= 95 * MonthlyLimit

\* C19: a recordRequest call within the month raises the count by one, so n
\* calls raise it by n; the log then holds the entries it held and the new one,
\* less the oldest beyond 100, in call order, and never more than 100 entries:
\* it is the most recent min(100, count) calls of the month.
C19_CountAndBoundedLog ==
    [][(result'.type = "recordRequest" /\ ~StoredMonthIsOver)
          => LET all == Append(usage.requests, usage.count + 1)
                 keep == IF Len(all) > 100 THEN 100 ELSE Len(all)
                 total == usage'.count
                 recent == IF total > 100 THEN 100 ELSE total
             IN /\ usage'.count = usage.count + 1
                /\ Len(usage'.requests) <= 100
                /\ usage'.requests = [i \in 1..keep |-> all[Len(all) - keep + i]]
                /\ usage'.requests = [i \in 1..recent |-> total - recent + i]]_vars

\* Every recordRequest call of the behaviour has been made, starting one entry
\* short of a full log: the log is full and its oldest entries are gone.
C19_Witness ==
    /\ result = Response("recordRequest", "returned")
    /\ left = 0
    /\ usage.count = 100 - 1 + MaxRecords
    /\ Len(usage.requests) = 100
    /\ usage.requests[1] = MaxRecords
    /\ usage.requests[100] = usage.count

IsValidIdentifier(identifier) ==
    /\ Len(Clean(identifier)) >= 2
    /\ isFlightNumber(Clean(identifier)) \/ isTailNumber(Clean(identifier))

\* C21: with the count of the month at the limit, a command for a valid
\* identifier is answered with the ephemeral 'Monthly API limit reached': no
\* request is issued, the quota state is what it was, and no tracking starts.
C21_QuotaExceededStopsLookup ==
    [][\A p \in pairs, u \in UserIds :
          (/\ Command(p.identifier, p.channelId, u)
           /\ IsValidIdentifier(p.identifier)
           /\ CurrentCount >= MonthlyLimit)
          => /\ result' = Response("ephemeral", "Monthly API limit reached")
             /\ tasks' = tasks
             /\ usage' = usage
             /\ trackedFlights' = trackedFlights
             /\ heap' = heap]_vars

\* The only command of the behaviour has been answered 'Monthly API limit
\* reached' with the count at the limit, nothing pending and nothing tracked.
C21_Witness ==
    /\ result = Response("ephemeral", "Monthly API limit reached")
    /\ left = 0
    /\ usage.count = MonthlyLimit
    /\ tasks = {}
    /\ trackedFlights = <<>>

\* C22: every request that the provider answers, with results, without any,
\* or with an error response, and the fallback request of a tail number as
\* well as the first, raises the count of the month by one; a command rejected
\* before any request leaves the count as it was.
C22_EveryAnsweredRequestCounted ==
    [][/\ \A t \in tasks, reply \in Replies :
             (LookupReply(t, reply) \/ CheckReply(t, reply))
             => usage'.count = CurrentCount + 1
       /\ \A p \in pairs, u \in UserIds :
             (Command(p.identifier, p.channelId, u) /\ tasks' = tasks)
             => usage'.count = CurrentCount]_vars

\* C23: a command whose text has fewer than 2 letters and digits, however long
\* it is with its punctuation, is answered 'Flight identifier too short' and
\* issues no request.
C23_FewAlphanumericsTooShort ==
    [][\A p \in pairs, u \in UserIds :
          (/\ Command(p.identifier, p.channelId, u)
           /\ p.identifier # NoText
           /\ Len(Clean(p.identifier)) < 2)
          => /\ result' = Response("ephemeral", "Flight identifier too short")
             /\ tasks' = tasks]_vars

\* C24: a command whose cleaned text has 2 characters or more and matches
\* neither pattern is answered 'Invalid format' and issues no request, whatever
\* the quota state: also when the count of the month is at the limit.
C24_InvalidFormatBeforeQuota ==
    [][\A p \in pairs, u \in UserIds :
          (/\ Command(p.identifier, p.channelId, u)
           /\ Len(Clean(p.identifier)) >= 2
           /\ ~IsValidIdentifier(p.identifier))
          => /\ result' = Response("ephemeral", "Invalid format")
             /\ tasks' = tasks]_vars

\* The requests waiting for the provider's answer.
Requests(ts) == {t \in ts : t.phase \in {"primary", "fallback"}}

\* C25: when the provider answers a request of a getFlightData call, the call
\* issues one more request, the fallback one, exactly when the call is for a
\* tail number, the request answered was its first and the answer was the
\* error 400; in every other case, a failed fallback request included, the
\* call issues nothing more. So a call makes at most 1 request for a flight
\* number and at most 2 for a tail number.
C25_OnlyTheTailFallbackRetries ==
    [][\A t \in tasks, reply \in Replies :
          (LookupReply(t, reply) \/ CheckReply(t, reply))
          => LET fallback == [t EXCEPT !.phase = "fallback"]
             IN /\ t.phase \in {"primary", "fallback"}
                /\ t \notin tasks'
                /\ Requests(tasks') \ Requests(tasks) \subseteq {fallback}
                /\ fallback \in tasks'
                      <=> /\ t.searchType = "tail_number"
                          /\ t.phase = "primary"
                          /\ ~reply.ok
                          /\ reply.code = 400]_vars

\* The fallback request of a command for a tail number is waiting for its
\* answer, and it is the only request pending.
C25_Witness ==
    \E t \in tasks :
        /\ t.kind = "lookup"
        /\ t.searchType = "tail_number"
        /\ t.phase = "fallback"
        /\ Requests(tasks) = {t}

\* C26: the section of a command that ends with the provider returning a
\* flight puts a new entry for the command's pair in the registry and answers
\* in_channel; every other section of a command, whether it rejects the text,
\* finds the quota used up, issues a request, or learns that the provider
\* found nothing or failed, leaves the registry and its entries as they were
\* and answers, when it answers, ephemeral.
C26_TrackingStartsOnlyOnAFlight ==
    [][/\ \A p \in pairs, u \in UserIds :
             Command(p.identifier, p.channelId, u)
             => /\ trackedFlights' = trackedFlights
                /\ heap' = heap
                /\ result' = None \/ result'.type = "ephemeral"
                /\ result' = None <=> tasks' # tasks
       /\ \A t \in tasks, reply \in Replies :
             LookupReply(t, reply)
             => LET key == KeyOf(t.identifier, t.channelId)
                IN IF reply.ok /\ Len(reply.flights) > 0
                   THEN /\ result'.type = "in_channel"
                        /\ MapHas(trackedFlights', key)
                        /\ MapKeys(trackedFlights') = MapKeys(trackedFlights) \cup {key}
                        /\ heap'[MapGet(trackedFlights', key)].updateCount = 0
                        /\ heap'[MapGet(trackedFlights', key)].lastUpdated = now
                        /\ \A k \in MapKeys(trackedFlights) \ {key} :
                              heap'[MapGet(trackedFlights', k)]
                                  = heap[MapGet(trackedFlights, k)]
                   ELSE /\ trackedFlights' = trackedFlights
                        /\ heap' = heap
                        /\ result' = None \/ result'.type = "ephemeral"
                        /\ result' = None <=> Requests(tasks') # Requests(tasks) \ {t}]_vars

\* With one flight tracked, the only command of the behaviour has been told
\* that the provider found nothing: the entry is still the one from before the
\* clock started.
C26_Witness ==
    /\ result = Response("ephemeral", "not found")
    /\ left = 0
    /\ Len(trackedFlights) = 1
    /\ heap[trackedFlights[1].ref].lastUpdated < 0

\* The message the user gets for each failure the handler knows.
FixedMessages ==
    {<<"Flight identifier too short", "Flight identifier too short">>,
     <<"Invalid flight identifier format", "Invalid format">>,
     <<"API authentication failed", "Service temporarily unavailable">>,
     <<"API rate limit exceeded", "Service busy">>,
     <<"API usage limit reached", "Monthly API limit reached">>}

\* The one response to a command whose lookup failed with the given message.
Answered(msg) ==
    IF \E m \in FixedMessages : m[1] = msg
    THEN \E m \in FixedMessages : m[1] = msg /\ result' = Response("ephemeral", m[2])
    ELSE result' = Response("ephemeral", "Error retrieving flight information")

\* C27: a lookup that fails as too short, invalid format, authentication
\* failure, rate limit or quota exhausted is answered with the fixed ephemeral
\* message of that failure; a failure of any other kind is answered with the
\* generic ephemeral message of the top-level handler; and the command is
\* answered once, in the section in which its lookup ends.
C27_EveryFailureAnsweredOnce ==
    [][/\ \A p \in pairs, u \in UserIds :
             (Command(p.identifier, p.channelId, u) /\ p.identifier # NoText)
             => IF tasks' # tasks
                THEN result' = None
                ELSE Answered(PreCheck(p.identifier, usage, now))
       /\ \A t \in tasks, reply \in Replies :
             (LookupReply(t, reply) /\ ~reply.ok)
             => IF Requests(tasks') # Requests(tasks) \ {t}
                THEN result' = None
                ELSE /\ tasks' = tasks \ {t}
                     /\ Answered(IF reply.code = 401 THEN "API authentication failed"
                                 ELSE IF reply.code = 429 THEN "API rate limit exceeded"
                                 ELSE "Request failed")]_vars

\* The request of the only command of the behaviour has failed with an error
\* the handler does not know: the command has its generic answer and nothing
\* is pending.
C27_Witness ==
    /\ result = Response("ephemeral", "Error retrieving flight information")
    /\ left = 0
    /\ tasks = {}
    /\ running = {}

\* C28: in a poll cycle started with the quota available and not critical,
\* every entry that stays tracked and whose last fetch ended 5 minutes ago or
\* earlier, as it did when the previous cycle ran 5 minutes before this one,
\* is fetched.
C28_EveryEntryEveryCycle ==
    [][(/\ CheckFlightUpdates
        /\ CurrentCount < MonthlyLimit
        /\ 100 * CurrentCount < 95 * MonthlyLimit)
          => \A i \in DOMAIN trackedFlights' :
                LET ref == trackedFlights'[i].ref
                IN getTime(now) - getTime(heap[ref].lastUpdated) >= FiveMinutesMs
                      => \E t \in tasks' : t.kind = "check" /\ t.ref = ref]_vars

\* C29: shouldSendUpdate(current, previous) is true exactly when current
\* differs from previous and is one of scheduled, active, landed, cancelled,
\* incident and diverted, whatever previous is; a change to unknown, to
\* 'result unknown' or to any other status gives false.
C29_ShouldSendUpdate ==
    result.type = "shouldSendUpdate"
    => \A t \in tasks :
          LET current == t.flight.flight_status
              previous == heap[t.ref].lastStatus
          IN result.text = "true"
                <=> /\ current # previous
                    /\ current \in {"scheduled", "active", "landed", "cancelled",
                                    "incident", "diverted"}

\* A change from unknown, which is no trigger status, to active is to be
\* reported.
C29_Witness ==
    /\ result = Response("shouldSendUpdate", "true")
    /\ \E t \in tasks :
          /\ t.flight.flight_status = "active"
          /\ heap[t.ref].lastStatus = "unknown"

\* C30: when a check whose fetch returned a flight ends, at once if there was
\* nothing to report and otherwise when the post has settled, delivered or
\* not, the entry it was launched for holds the fetched flight as its snapshot
\* and the time of that moment as lastUpdated; and a poll cycle launches checks
\* only for entries whose lastUpdated lies more than 5 minutes back.
C30_SnapshotAndTimeAfterEveryFetch ==
    [][/\ \A t \in tasks, reply \in Replies :
             (/\ result' = Response("check", "nothing to report")
              /\ reply.ok
              /\ Len(reply.flights) > 0
              /\ t.ref \in MapRefs(trackedFlights')
              /\ CheckReply(t, reply))
             => /\ heap'[t.ref].flight = normalizeFlightData(reply.flights[1], t.searchType)
                /\ heap'[t.ref].lastUpdated = now
       /\ \A t \in tasks, delivered \in BOOLEAN :
             (/\ result'.type = "post"
              /\ t.ref \in MapRefs(trackedFlights')
              /\ PostSettles(t, delivered))
             => /\ heap'[t.ref].flight = t.flight
                /\ heap'[t.ref].lastUpdated = now
       /\ (result'.type = "poll" /\ CheckFlightUpdates)
             => \A t \in tasks' \ tasks :
                   getTime(now) - getTime(heap[t.ref].lastUpdated) > FiveMinutesMs]_vars

\* A check has fetched a flight whose status is not one to report: the entry
\* holds that flight and the present time, and the status it last reported.
C30_Witness ==
    /\ result = Response("check", "nothing to report")
    /\ now > 0
    /\ \E i \in DOMAIN trackedFlights :
          LET tracking == heap[trackedFlights[i].ref]
          IN /\ tracking.lastUpdated = now
             /\ tracking.flight.flight_status = "unknown"
             /\ tracking.lastStatus = "active"

\* C31: a poll cycle that passes the quota gate, with usage not critical or at
\* most two candidates, launches one fetch for each entry that stays in the
\* registry and whose lastUpdated lies more than 5 minutes back, and no other
\* fetch: an entry updated 5 minutes ago or later is not fetched and no entry
\* gets two fetches.
C31_FetchedAreTheStaleEntries ==
    [][LET stale == {i \in DOMAIN trackedFlights' :
                        getTime(now) - getTime(heap[trackedFlights'[i].ref].lastUpdated)
                           > FiveMinutesMs}
           started == tasks' \ tasks
       IN (/\ result'.type = "poll"
           /\ result'.text # "API usage limit reached"
           /\ CheckFlightUpdates
           /\ ~(shouldLimitTracking(usage, now) /\ Cardinality(stale) > CriticalKeep))
          => /\ \A t \in started : t.kind = "check" /\ t.phase = "primary"
             /\ {t.ref : t \in started} = {trackedFlights'[i].ref : i \in stale}
             /\ Cardinality(started) = Cardinality(stale)
             /\ \A i \in DOMAIN trackedFlights' :
                   getTime(now) - getTime(heap[trackedFlights'[i].ref].lastUpdated)
                      <= FiveMinutesMs
                   => \A t \in started : t.ref # trackedFlights'[i].ref]_vars

\* A poll cycle has launched a fetch for one entry and none for an entry
\* whose lastUpdated lies exactly 5 minutes back.
C31_Witness ==
    /\ result = Response("poll", "waiting")
    /\ \E i, j \in DOMAIN trackedFlights :
          /\ getTime(now) - getTime(heap[trackedFlights[i].ref].lastUpdated) = FiveMinutesMs
          /\ \A t \in tasks : t.ref # trackedFlights[i].ref
          /\ \E t \in tasks : t.kind = "check" /\ t.ref = trackedFlights[j].ref

\* C32: a check runs fetch, compare, mutate, notify in that order, one step at
\* a time: when the status-change message is handed to the channel, the entry
\* the check was launched for already holds the new status as lastStatus, one
\* more in updateCount and hasLanded set if the flight has landed, and a check
\* is at one step only.
C32_MutateBeforeNotify ==
    [][result' = Response("check", "posting")
         => /\ \A t \in Posting(tasks') \ Posting(tasks) :
                  /\ heap'[t.ref].lastStatus = t.flight.flight_status
                  /\ heap'[t.ref].updateCount = heap[t.ref].updateCount + 1
                  /\ t.flight.flight_status = "landed" => heap'[t.ref].hasLanded
            /\ \A t1, t2 \in Checks(tasks') :
                  t1.cycle = t2.cycle /\ t1.ref = t2.ref => t1 = t2]_vars

\* C33: the updateCount of an entry is the number of status-change messages
\* handed to the channel for it since startTracking made it: startTracking
\* leaves it 0, and every later step adds to it the number of messages the
\* step hands to the channel for the entry, one at most, and nothing else.
C33_UpdateCountCountsNotifications ==
    [][IF result' = Response("in_channel", "Now tracking")
       THEN \A r \in MapRefs(trackedFlights') :
               \/ heap'[r].updateCount = 0
               \/ heap[r] # NoObject /\ heap'[r].updateCount = heap[r].updateCount
       ELSE \A r \in Refs :
               LET handed == {t \in Posting(tasks') \ Posting(tasks) : t.ref = r}
               IN heap[r] # NoObject /\ heap'[r] # NoObject
                  => /\ Cardinality(handed) <= 1
                     /\ heap'[r].updateCount = heap[r].updateCount + Cardinality(handed)]_vars

\* C34: a pending check touches the object it was launched for and nothing
\* else.  The entry startTracking puts in the registry is a new object that no
\* pending check holds; a step of a check leaves the registry as it is, so it
\* does not put a stopped key back, and leaves every entry other than its own
\* object as it is, so an entry that replaced the one the check was launched
\* for keeps what startTracking gave it.
C34_CheckTouchesItsOwnObjectOnly ==
    [][/\ result' = Response("in_channel", "Now tracking")
             => \A t \in tasks \ tasks' :
                   LET new == MapGet(trackedFlights', KeyOf(t.identifier, t.channelId))
                   IN /\ \A c \in Checks(tasks') : c.ref # new
                      /\ heap'[new].updateCount = 0
                      /\ heap'[new].lastUpdated = now
                      /\ heap'[new].lastStatus = heap'[new].flight.flight_status
                      /\ heap'[new].hasLanded = (heap'[new].lastStatus = "landed")
       /\ result'.type \in {"check", "post"}
             => /\ trackedFlights' = trackedFlights
                /\ \A t \in tasks \ tasks', r \in MapRefs(trackedFlights) :
                      r # t.ref => heap'[r] = heap[r]]_vars

\* The post of a check has settled after a command re-created the entry the
\* check was launched for: the entry is as startTracking made it.
C34_Witness ==
    /\ result.type = "post"
    /\ Len(trackedFlights) = 1
    /\ pairs = Range(RacePairs)
    /\ LET tracking == heap[trackedFlights[1].ref]
       IN /\ tracking.updateCount = 0
          /\ tracking.lastStatus = "active"
          /\ ~tracking.hasLanded

\* C35: once stopTracking has removed an entry, no status-change message is
\* handed to the channel for it: a check hands a message over only while the
\* pair it was launched for is in the registry.
C35_NoPostAfterStop ==
    [][result' = Response("check", "posting")
         => \A t \in Posting(tasks') \ Posting(tasks) :
               isTracking(trackedFlights, t.identifier, t.channelId)]_vars

\* C36: every entry of the registry whose lastStatus is landed has hasLanded
\* true, in every state.
C36_LandedStatusMeansHasLanded ==
    \A i \in DOMAIN trackedFlights :
       heap[trackedFlights[i].ref].lastStatus = "landed"
          => heap[trackedFlights[i].ref].hasLanded

\* The post of a check that found a tracked flight landed has settled: the
\* entry, which was active and not landed, now holds landed as lastStatus, its
\* first notification and hasLanded.
C36_Witness ==
    /\ result.type = "post"
    /\ \E i \in DOMAIN trackedFlights :
          LET tracking == heap[trackedFlights[i].ref]
          IN /\ tracking.lastStatus = "landed"
             /\ tracking.updateCount = 1
             /\ tracking.hasLanded

\* The six statuses a change to which is reported.
TriggerStatuses == {"scheduled", "active", "landed", "cancelled", "incident", "diverted"}

\* C37: in every state an entry whose snapshot holds one of the six trigger
\* statuses holds the same status as lastStatus.  A check that finds nothing
\* to report leaves lastStatus as it was, so lastStatus and the snapshot
\* differ only while the snapshot holds another status; and when the snapshot
\* holds such a status and the fetch returns the status lastStatus still
\* holds, the check hands no message to the channel.
C37_TriggerSnapshotIsLastStatus ==
    /\ [](\A i \in DOMAIN trackedFlights :
             LET tracking == heap[trackedFlights[i].ref]
             IN tracking.flight.flight_status \in TriggerStatuses
                   => tracking.flight.flight_status = tracking.lastStatus)
    /\ [][/\ result' = Response("check", "nothing to report")
                => \A t \in tasks \ tasks' :
                      t.ref \in MapRefs(trackedFlights')
                         => heap'[t.ref].lastStatus = heap[t.ref].lastStatus
          /\ \A t \in tasks, reply \in Replies :
                (/\ result'.type = "check"
                 /\ t.kind = "check"
                 /\ reply.ok
                 /\ Len(reply.flights) > 0
                 /\ heap[t.ref].flight.flight_status \notin TriggerStatuses
                 /\ mapFlightAwareStatus(reply.flights[1].status) = heap[t.ref].lastStatus
                 /\ CheckReply(t, reply))
                => /\ result' = Response("check", "nothing to report")
                   /\ Posting(tasks') = Posting(tasks)]_vars

\* A check has fetched the status the entry reported before its snapshot
\* turned unknown: nothing was reported, and the snapshot and lastStatus agree
\* again.
C37_Witness ==
    /\ result = Response("check", "nothing to report")
    /\ now > 0
    /\ \E i \in DOMAIN trackedFlights :
          LET tracking == heap[trackedFlights[i].ref]
          IN /\ tracking.lastUpdated = now
             /\ tracking.flight.flight_status = "landed"
             /\ tracking.lastStatus = "landed"
             /\ tracking.updateCount = PruneThreshold

UpperCaseLetters ==
    <<"A", "B", "C", "D", "E", "F", "G", "H", "I", "J", "K", "L", "M",
      "N", "O", "P", "Q", "R", "S", "T", "U", "V", "W", "X", "Y", "Z">>
LowerCaseLetters ==
    <<"a", "b", "c", "d", "e", "f", "g", "h", "i", "j", "k", "l", "m",
      "n", "o", "p", "q", "r", "s", "t", "u", "v", "w", "x", "y", "z">>
UpperCase(s) ==
    [i \in DOMAIN s |->
        IF \E k \in DOMAIN LowerCaseLetters : LowerCaseLetters[k] = s[i]
        THEN UpperCaseLetters[CHOOSE k \in DOMAIN LowerCaseLetters : LowerCaseLetters[k] = s[i]]
        ELSE s[i]]
\* Two identifiers that are equal once the characters that are no letters or
\* digits are dropped and the case of the letters is ignored.
SameFlight(a, b) == UpperCase(Clean(a)) = UpperCase(Clean(b))

\* C39: the registry holds at most one entry for a flight and a channel: two
\* entries of one channel never hold identifiers that are equal after the
\* stripping of other characters than letters and digits and the folding of
\* case.
C39_OneEntryPerFlightAndChannel ==
    \A i, j \in DOMAIN trackedFlights :
       LET a == heap[trackedFlights[i].ref]
           b == heap[trackedFlights[j].ref]
       IN (a.channelId = b.channelId /\ SameFlight(a.identifier, b.identifier)) => i = j

\* C40: a poll cycle that is waiting for its checks returns, and returns
\* normally, once every fetch and post it started has settled, whatever they
\* settled with: a flight, no flight, an error of the provider, a delivered
\* or a failed post; and no call of checkFlightUpdates ends in another way
\* than by returning, at once or later.
C40_CycleAlwaysReturns ==
    /\ \A cycle \in 1..(MaxTriggers + 1) :
          (cycle \in running) ~> (cycle \notin running)
    /\ [][/\ (running' # running /\ Cardinality(running') < Cardinality(running))
                => result' = Response("poll", "returned")
          /\ (result'.type = "poll" /\ CheckFlightUpdates)
                => result'.text \in {"API usage limit reached", "returned", "waiting"}]_vars

\* A poll cycle has returned although the fetch of its check failed or found
\* no flight: the entry is as old as it was when the cycle selected it.
C40_Witness ==
    /\ result = Response("poll", "returned")
    /\ running = {}
    /\ Checks(tasks) = {}
    /\ \E i \in DOMAIN trackedFlights :
          shouldCheck(heap[trackedFlights[i].ref], now)
====
